---------------------------- MODULE Spec2Model ----------------------------
(***************************************************************************)
(* Model of the two ClinVar query tools:                                   *)
(*   src/ClinVar_query_tool_single_variant.py  (tool = "single")           *)
(*   src/Clinvar_query_tool_batch.py           (tool = "batch")            *)
(*                                                                         *)
(* Python str values are modelled as sequences of one-character strings,   *)
(* so that upper(), lower(), strip(), join() and the substring test are    *)
(* computed and not assumed.  Python dict values are functions whose       *)
(* domain is the set of keys present; dict.get is Get.                     *)
(***************************************************************************)
EXTENDS Naturals, Sequences, FiniteSets, TLC

(* ----------------------------- bounds ---------------------------------- *)
\* longest id list the search endpoint answers with (Spec)
MaxIds == 2
\* longest input table the batch driver reads (SpecBatch)
MaxRows == 3
\* longest id list the search endpoint answers with under SpecBatch
BatchMaxIds == 1

(* ------------------------- Python str helpers --------------------------- *)
\* str.upper() on one character (ASCII letters used by the model)
UpperChar(c) ==
  CASE c = "a" -> "A" [] c = "c" -> "C" [] c = "d" -> "D" [] c = "e" -> "E"
    [] c = "h" -> "H" [] c = "l" -> "L" [] c = "n" -> "N" [] c = "p" -> "P"
    [] c = "s" -> "S" [] c = "u" -> "U" [] c = "x" -> "X"
    [] OTHER -> c

\* str.lower() on one character
LowerChar(c) ==
  CASE c = "A" -> "a" [] c = "C" -> "c" [] c = "D" -> "d" [] c = "E" -> "e"
    [] c = "G" -> "g" [] c = "H" -> "h" [] c = "L" -> "l" [] c = "N" -> "n"
    [] c = "P" -> "p" [] c = "S" -> "s" [] c = "U" -> "u" [] c = "X" -> "x"
    [] OTHER -> c

Upper(s) == [k \in 1..Len(s) |-> UpperChar(s[k])]

Lower(s) == [k \in 1..Len(s) |-> LowerChar(s[k])]

\* `sub in s` for two str values
Contains(sub, s) ==
  \E k \in 1..(Len(s) + 1) :
     /\ k + Len(sub) - 1 <= Len(s)
     /\ SubSeq(s, k, k + Len(sub) - 1) = sub

IsSpace(c) == c = " "

\* str.strip(): drop leading and trailing whitespace
RECURSIVE LStrip(_)
LStrip(s) == IF s # <<>> /\ IsSpace(Head(s)) THEN LStrip(Tail(s)) ELSE s

RECURSIVE RStrip(_)
RStrip(s) ==
  IF s # <<>> /\ IsSpace(s[Len(s)]) THEN RStrip(SubSeq(s, 1, Len(s) - 1)) ELSE s

Strip(s) == RStrip(LStrip(s))

\* ', '.join(list)
CommaSpace == <<",", " ">>

RECURSIVE Join(_)
Join(list) ==
  IF list = <<>> THEN <<>>
  ELSE IF Len(list) = 1 THEN list[1]
  ELSE list[1] \o CommaSpace \o Join(Tail(list))

\* dict.get(key, default)
Get(d, key, default) == IF key \in DOMAIN d THEN d[key] ELSE default

EmptyDict == <<>>

\* the 'N/A' sentinel
NA == <<"N", "/", "A">>

\* the 'NA' default of the single tool's canonical_spdi lookup
NA_single == <<"N", "A">>


(* ---------------------- JSON values of the service ---------------------- *)
\* A JSON value inside a heterogeneous list carries its Python type, which
\* isinstance() reads.
JDict(d) == [t |-> "dict", v |-> d]

JStr(s) == [t |-> "str", v |-> s]

JNum == [t |-> "num"]

IsDict(x) == x.t = "dict"

IsStr(x) == x.t = "str"

Digits == <<"1", "2", "3", "4", "5", "6", "7", "8", "9">>

\* the k-th identifier of an 'idlist' (identifiers are JSON strings)
IdOf(k) == <<Digits[k]>>

IdList(n) == [k \in 1..n |-> IdOf(k)]

chd8 == <<"c", "h", "d", "8">>

Chd8 == <<"C", "h", "d", "8">>

ASXL1 == <<"A", "S", "X", "L", "1">>

EmptyStr == <<>>

\* gene names typed at the prompt (input() accepts the empty line)
GeneNames == {chd8, EmptyStr}

TheVariant == <<"p", ".", "R", "1", "W">>

\* values of the 'genes' field of a detail record
GenesValues ==
  { <<JDict([symbol |-> Chd8])>>,
    <<JStr(ASXL1), JNum>>,
    <<JDict([geneid |-> <<"7">>])>> }

TitlePlain == <<"c", ".", "4", "A", ">", "G">>

TitleDel == <<"c", ".", "4", "D", "e", "l">>

TitleDup == <<"c", ".", "4", "d", "u", "p">>

TitleValues == {TitlePlain, TitleDel, TitleDup}

Spdi == <<"1", ":", "4", ":", "A", ":", "G">>

\* values of the 'variation_set' field of a detail record
VariationSets ==
  { <<>>,
    <<JStr(<<"x">>)>>,
    <<JDict([canonical_spdi |-> Spdi])>> }

\* the accession the service stores for identifier id (VCV + the identifier)
AccessionOf(id) == <<"V", "C", "V">> \o id

\* a dict that has key k with one of vals, or lacks k
Opt(k, vals) == {EmptyDict} \cup {k :> v : v \in vals}

\* the non-empty detail records the summary endpoint can hold for id
Payloads(id) ==
  { ("accession" :> AccessionOf(id)) @@ g @@ t @@ v :
      g \in Opt("genes", GenesValues),
      t \in Opt("title", TitleValues),
      v \in Opt("variation_set", VariationSets) }

\* outcome of requests.get + raise_for_status + response.json():
\* a RequestException (ConnectionError/Timeout, HTTPError, and the
\* JSONDecodeError of requests >= 2.27), or the decoded body
Exc(name) == [kind |-> "exc", exc |-> name]

Json(body) == [kind |-> "json", body |-> body]

SearchErrors == {"Timeout", "HTTPError", "JSONDecodeError"}

DetailErrors == {"HTTPError"}

\* str(e) of a RequestException
Message(e) ==
  CASE e = "Timeout" -> "Read timed out."
    [] e = "HTTPError" -> "503 Server Error"
    [] OTHER -> "Expecting value: line 1 column 1 (char 0)"

\* what the search endpoint can answer, with at most cap identifiers
SearchResponses(cap) ==
  {Exc(e) : e \in SearchErrors}
    \cup {Json(EmptyDict), Json([esearchresult |-> EmptyDict])}
    \cup {Json([esearchresult |-> [idlist |-> IdList(n)]]) : n \in 0..cap}

\* what the summary endpoint can answer for identifier id
DetailResponses(id) ==
  {Exc(e) : e \in DetailErrors}
    \cup {Json(EmptyDict), Json([result |-> EmptyDict]),
          Json([result |-> (id :> EmptyDict)])}
    \cup {Json([result |-> (id :> p)]) : p \in Payloads(id)}

(* ------------------------------- state ---------------------------------- *)
VARIABLES
  tool,            \* which file runs: "single" or "batch"
  mode,            \* "manual": one prompt-driven call; "excel": batch_query_from_excel
  pc,              \* position of the running code
  gene_name,       \* arguments of query_clinvar_for_specific_variant
  variant,
  id_list,         \* locals of query_clinvar_for_specific_variant
  idx,             \* position of the for loop in id_list
  var_id,
  var_data,
  ret,             \* what the call returned or raised
  searched,        \* the esearch answer received, or NoRet before it
  esummary_calls,  \* identifiers for which an esummary request was issued
  examined,        \* the esummary answers received, in order
  df,              \* the table read by pd.read_excel
  row,             \* position of iterrows
  results,         \* locals of batch_query_from_excel
  calls,           \* the (gene, variant) pairs handed to the resolver
  written,         \* the rows passed to to_excel, or NotWritten
  idCap            \* longest id list the search endpoint answers with

vars ==
  <<tool, mode, pc, gene_name, variant, id_list, idx, var_id, var_data, ret,
    searched, esummary_calls, examined, df, row, results, calls, written, idCap>>

driverVars == <<df, row, results, calls, written>>

\* a local name that has not been assigned yet
Unbound == [unbound |-> TRUE]

NoRet == [tag |-> "none"]

NotWritten == [tag |-> "none"]

\* a returned str built by an f-string: its template and its arguments
RetStr(fmt, args) == [tag |-> "str", fmt |-> fmt, args |-> args]

RetDict(d) == [tag |-> "dict", dict |-> d]

Raised(exc, line) == [tag |-> "raise", exc |-> exc, line |-> line]

\* the answer as the history keeps it: the variation_set of a detail record
\* is left out (the record in use is var_data)
Seen(id, resp) ==
  IF resp.kind = "json" /\ "result" \in DOMAIN resp.body
       /\ id \in DOMAIN resp.body.result
  THEN LET p == resp.body.result[id]
       IN  [id |-> id, kind |-> "record",
            data |-> [k \in DOMAIN p \ {"variation_set"} |-> p[k]]]
  ELSE IF resp.kind = "json" /\ "result" \in DOMAIN resp.body
  THEN [id |-> id, kind |-> "noentry"]
  ELSE IF resp.kind = "json"
  THEN [id |-> id, kind |-> "noresult"]
  ELSE [id |-> id, kind |-> "exc"]

(* ---------------- shared pieces of the two resolvers -------------------- *)
\* lines 71-76 (single) / 85-90 (batch): the symbols of a 'genes' list
RECURSIVE ExtractGeneSymbols(_)
ExtractGeneSymbols(genes) ==
  IF genes = <<>> THEN <<>>
  ELSE LET gene == Head(genes)
           rest == ExtractGeneSymbols(Tail(genes))
       IN  IF IsDict(gene) THEN <<Get(gene.v, "symbol", EmptyStr)>> \o rest
           ELSE IF IsStr(gene) THEN <<gene.v>> \o rest
           ELSE rest

\* a variant of the extraction that keeps structured entries only (the
\* comprehension left commented out at line 78 of the single tool)
GeneSymbolsOf_dicts_only(data) ==
  ExtractGeneSymbols(SelectSeq(Get(data, "genes", <<>>), IsDict))

GeneSymbolsOf(data) == ExtractGeneSymbols(Get(data, "genes", <<>>))

\* a variant of the gene test that accepts any record that lists a gene
GeneMatches_any_symbol(name, gene_symbols) == gene_symbols # <<>>

\* gene_name.upper() in [g.upper() for g in gene_symbols]
GeneMatches(name, gene_symbols) ==
  \E k \in 1..Len(gene_symbols) : Upper(gene_symbols[k]) = Upper(name)

\* "del" in title.lower() or "dup" in title.lower()
TitleExcluded(data) ==
  LET title == Get(data, "title", EmptyStr)
  IN  \/ Contains(<<"d", "e", "l">>, Lower(title))
      \/ Contains(<<"d", "u", "p">>, Lower(title))

\* variation_set and isinstance(variation_set[0], dict)
FirstIsStructured(variation_set) ==
  variation_set # <<>> /\ IsDict(variation_set[1])

\* the fields both tools copy from var_data
CommonFields(id, data, canonical_spdi, gene_symbols) ==
  ("Variation ID" :> id) @@
  ("Accession" :> Get(data, "accession", NA)) @@
  ("Title" :> Get(data, "title", NA)) @@
  ("Canonical spdi" :> canonical_spdi) @@
  ("Gene Symbol" :> Join(gene_symbols)) @@
  ("Chromosome" :> Get(data, "chr_sort", NA)) @@
  ("ACMG score" :>
     Get(Get(data, "germline_classification", EmptyDict), "description", NA))

(* ------------- src/ClinVar_query_tool_single_variant.py ----------------- *)
\* the locals of a fresh call
EnterCall(g, v) ==
  /\ gene_name' = g
  /\ variant' = v
  /\ id_list' = <<>>
  /\ idx' = 0
  /\ var_id' = Unbound
  /\ var_data' = Unbound
  /\ ret' = NoRet
  /\ searched' = NoRet
  /\ esummary_calls' = <<>>
  /\ examined' = <<>>
  /\ pc' = "search"

\* main(), lines 105-108: read gene and variant, call the resolver
Single_main ==
  /\ tool = "single" /\ mode = "manual" /\ pc = "main"
  /\ \E g \in GeneNames : EnterCall(g, TheVariant)
  /\ UNCHANGED <<tool, mode, idCap, driverVars>>

\* data['esearchresult'].get('idlist', []) of line 46 / 64; the body lacks the
\* key: KeyError, which is no RequestException
HasSearchResult(body) == "esearchresult" \in DOMAIN body

IdListOf(body) == Get(body.esearchresult, "idlist", <<>>)

\* a variant without the empty-list return
NoIds_never(ids) == FALSE

\* `not id_list` of line 50 / 68
NoIds(ids) == ids = <<>>

\* lines 42-51: the search and the empty-list return
Single_esearch ==
  /\ tool = "single" /\ pc = "search"
  /\ \E resp \in SearchResponses(idCap) :
     /\ searched' = resp
     /\ IF resp.kind = "exc"
          THEN /\ ret' = RetStr("Error: Unable to search ClinVar. {str(e)}",
                                <<Message(resp.exc)>>)
               /\ pc' = "returned"
               /\ UNCHANGED <<id_list, idx>>
          ELSE IF ~HasSearchResult(resp.body)
          THEN /\ ret' = Raised("KeyError", 46)
               /\ pc' = "raised"
               /\ UNCHANGED <<id_list, idx>>
          ELSE /\ id_list' = IdListOf(resp.body)
               /\ IF NoIds(id_list')
                  THEN /\ ret' = RetStr("No variants found for gene: {gene_name}",
                                        <<gene_name>>)
                       /\ pc' = "returned"
                       /\ idx' = idx
                  ELSE /\ ret' = ret
                       /\ pc' = IF Len(id_list') = 0 THEN "after_loop"
                                                     ELSE "loop"
                       /\ idx' = 1
  /\ UNCHANGED <<tool, mode, idCap, driverVars, gene_name, variant, var_id,
                 var_data, esummary_calls, examined>>

\* lines 55-67: one turn of `for var_id in id_list`; the loop body ends at
\* line 67, so a turn only rebinds var_id and var_data
Single_esummary_loop ==
  /\ tool = "single" /\ pc = "loop"
  /\ var_id' = id_list[idx]
  /\ esummary_calls' = Append(esummary_calls, var_id')
  /\ \E resp \in DetailResponses(var_id') :
       /\ examined' = Append(examined, Seen(var_id', resp))
       /\ IF resp.kind = "exc"
          THEN /\ var_data' = var_data
               /\ ret' = ret
               /\ idx' = idx + 1
               /\ pc' = IF idx = Len(id_list) THEN "after_loop" ELSE "loop"
          ELSE IF "result" \notin DOMAIN resp.body
          THEN /\ var_data' = var_data
               /\ ret' = Raised("KeyError", 65)
               /\ idx' = idx
               /\ pc' = "raised"
          ELSE /\ var_data' = Get(resp.body.result, var_id', EmptyDict)
               /\ ret' = ret
               /\ idx' = idx + 1
               /\ pc' = IF idx = Len(id_list) THEN "after_loop" ELSE "loop"
  /\ UNCHANGED <<tool, mode, idCap, searched, driverVars, gene_name, variant, id_list>>

\* lines 88-97: the record of the single tool
Single_variant_info(id, data, canonical_spdi, gene_symbols) ==
  CommonFields(id, data, canonical_spdi, gene_symbols) @@
  ("Molecular Consequence" :> Get(data, "molecular_consequence_list", NA))

\* lines 83-86: line 84 assigns the misspelt cannonical_spid, so the name
\* canonical_spdi is bound only when line 86 runs
Single_canonical_spdi_bound(data) ==
  FirstIsStructured(Get(data, "variation_set", <<>>))

\* line 86
Single_canonical_spdi(data) ==
  Get(Get(data, "variation_set", <<>>)[1].v, "canonical_spdi", NA_single)

\* what lines 70-99 return or raise, from the bindings the loop left
Single_after_loop_result(id, data, name) ==
  IF data = Unbound THEN Raised("UnboundLocalError", 72)
  ELSE LET gene_symbols == GeneSymbolsOf(data)
       IN  IF ~GeneMatches(name, gene_symbols)
           THEN RetStr("Variant found but not associated with gene {gene_name}. Found genes: {', '.join(gene_symbols)}",
                       <<name, Join(gene_symbols)>>)
           ELSE IF ~Single_canonical_spdi_bound(data)
           THEN Raised("UnboundLocalError", 92)
           ELSE RetDict(Single_variant_info(id, data,
                                            Single_canonical_spdi(data),
                                            gene_symbols))

\* lines 70-99, run once after the loop
Single_after_loop ==
  /\ tool = "single" /\ pc = "after_loop"
  /\ ret' = Single_after_loop_result(var_id, var_data, gene_name)
  /\ pc' = IF ret'.tag = "raise" THEN "raised" ELSE "returned"
  /\ UNCHANGED <<tool, mode, idCap, searched, driverVars, gene_name, variant, id_list,
                 idx, var_id, var_data, esummary_calls, examined>>

\* main(), lines 110-115: print the record or the message
Single_print ==
  /\ tool = "single" /\ mode = "manual" /\ pc = "returned"
  /\ pc' = "done"
  /\ UNCHANGED <<tool, mode, idCap, searched, driverVars, gene_name, variant, id_list,
                 idx, var_id, var_data, ret, esummary_calls, examined>>

(* ----------------- src/Clinvar_query_tool_batch.py ---------------------- *)
\* the failure dict of lines 66, 69 and 117
Batch_error(g, v, fmt, args) ==
  RetDict(("Gene" :> g) @@ ("Variant" :> v) @@
          ("Error" :> [fmt |-> fmt, args |-> args]))

\* lines 150-152: manual entry of the batch file
Batch_main ==
  /\ tool = "batch" /\ mode = "manual" /\ pc = "main"
  /\ \E g \in GeneNames : EnterCall(g, TheVariant)
  /\ UNCHANGED <<tool, mode, idCap, driverVars>>

\* lines 60-69: the search and the empty-list return
Batch_esearch ==
  /\ tool = "batch" /\ pc = "search"
  /\ \E resp \in SearchResponses(idCap) :
     /\ searched' = resp
     /\ IF resp.kind = "exc"
          THEN /\ ret' = Batch_error(gene_name, variant,
                                     "Unable to search ClinVar: {str(e)}",
                                     <<Message(resp.exc)>>)
               /\ pc' = "returned"
               /\ UNCHANGED <<id_list, idx>>
          ELSE IF ~HasSearchResult(resp.body)
          THEN /\ ret' = Raised("KeyError", 64)
               /\ pc' = "raised"
               /\ UNCHANGED <<id_list, idx>>
          ELSE /\ id_list' = IdListOf(resp.body)
               /\ IF NoIds(id_list')
                  THEN /\ ret' = Batch_error(gene_name, variant,
                                    "No variants found for gene: {gene_name}",
                                    <<gene_name>>)
                       /\ pc' = "returned"
                       /\ idx' = idx
                  ELSE IF Len(id_list') = 0
                  THEN /\ ret' = Batch_error(gene_name, variant,
                                    "No matching ClinVar record for gene",
                                    <<>>)
                       /\ pc' = "returned"
                       /\ idx' = idx
                  ELSE /\ ret' = ret
                       /\ pc' = "loop"
                       /\ idx' = 1
  /\ UNCHANGED <<tool, mode, idCap, driverVars, gene_name, variant, var_id,
                 var_data, esummary_calls, examined>>

\* lines 100-103
Batch_canonical_spdi(data) ==
  LET variation_set == Get(data, "variation_set", <<>>)
  IN  IF FirstIsStructured(variation_set)
      THEN Get(variation_set[1].v, "canonical_spdi", NA)
      ELSE NA

\* lines 105-116: the record of the batch tool
Batch_variant_info(g, v, id, data, gene_symbols) ==
  ("Gene" :> g) @@ ("Variant" :> v) @@
  CommonFields(id, data, Batch_canonical_spdi(data), gene_symbols) @@
  ("Molecular Consequence" :>
     Join(Get(data, "molecular_consequence_list", <<NA>>)))

\* a variant of the loop body without the title filter of lines 95-97
Batch_keeps_gene_only(name, data) == GeneMatches(name, GeneSymbolsOf(data))

\* lines 85-97: whether the loop body goes on to build the record
Batch_keeps(name, data) ==
  /\ GeneMatches(name, GeneSymbolsOf(data))
  /\ ~TitleExcluded(data)

\* the end of a turn that returned nothing: next turn, or line 117
Batch_continue ==
  IF idx = Len(id_list)
  THEN /\ ret' = Batch_error(gene_name, variant,
                             "No matching ClinVar record for gene", <<>>)
       /\ pc' = "returned"
       /\ idx' = idx
  ELSE /\ ret' = ret
       /\ pc' = "loop"
       /\ idx' = idx + 1

\* lines 71-117: one turn of `for var_id in id_list`
Batch_esummary_loop ==
  /\ tool = "batch" /\ pc = "loop"
  /\ var_id' = id_list[idx]
  /\ esummary_calls' = Append(esummary_calls, var_id')
  /\ \E resp \in DetailResponses(var_id') :
       /\ examined' = Append(examined, Seen(var_id', resp))
       /\ IF resp.kind = "exc"
          THEN /\ var_data' = var_data
               /\ Batch_continue
          ELSE IF "result" \notin DOMAIN resp.body
          THEN /\ var_data' = var_data
               /\ ret' = Raised("KeyError", 80)
               /\ idx' = idx
               /\ pc' = "raised"
          ELSE /\ var_data' = Get(resp.body.result, var_id', EmptyDict)
               /\ IF var_data' = EmptyDict
                  THEN Batch_continue
                  ELSE IF ~Batch_keeps(gene_name, var_data')
                  THEN Batch_continue
                  ELSE /\ ret' = RetDict(Batch_variant_info(gene_name,
                                    variant, var_id', var_data',
                                    GeneSymbolsOf(var_data')))
                       /\ pc' = "returned"
                       /\ idx' = idx
  /\ UNCHANGED <<tool, mode, idCap, searched, driverVars, gene_name, variant, id_list>>

\* line 153: print(result)
Batch_print ==
  /\ tool = "batch" /\ mode = "manual" /\ pc = "returned"
  /\ pc' = "done"
  /\ UNCHANGED <<tool, mode, idCap, searched, driverVars, gene_name, variant, id_list,
                 idx, var_id, var_data, ret, esummary_calls, examined>>

(* ------------------- one prompt-driven call: Spec ----------------------- *)
NoTable == [cols |-> {}, rows |-> <<>>]

Init ==
  /\ tool \in {"single", "batch"}
  /\ mode = "manual"
  /\ pc = "main"
  /\ gene_name = EmptyStr
  /\ variant = EmptyStr
  /\ id_list = <<>>
  /\ idx = 0
  /\ var_id = Unbound
  /\ var_data = Unbound
  /\ ret = NoRet
  /\ searched = NoRet
  /\ esummary_calls = <<>>
  /\ examined = <<>>
  /\ df = NoTable
  /\ row = 0
  /\ results = <<>>
  /\ calls = <<>>
  /\ written = NotWritten
  /\ idCap = MaxIds

Next ==
  \/ Single_main
  \/ Single_esearch
  \/ Single_esummary_loop
  \/ Single_after_loop
  \/ Single_print
  \/ Batch_main
  \/ Batch_esearch
  \/ Batch_esummary_loop
  \/ Batch_print

Spec == Init /\ [][Next]_vars

(* ---------- batch_query_from_excel, lines 119-139: SpecBatch ------------ *)
\* an empty spreadsheet cell as pd.read_excel delivers it: float('nan')
NaN == [t |-> "nan"]

nan == <<"n", "a", "n">>

\* str(x) for a cell value: str(float('nan')) is 'nan'
PyStr(x) == IF IsStr(x) THEN x.v ELSE nan

\* row.get(col, "")
RowGet(table, r, col) ==
  IF col \in table.cols THEN table.rows[r][col] ELSE JStr(EmptyStr)

\* lines 127-128: str(row.get(col, "")).strip()
CellText(table, r, col) == Strip(PyStr(RowGet(table, r, col)))

\* line 129: `not gene or not variant`
RowSkipped(table, r) ==
  \/ CellText(table, r, "Gene") = EmptyStr
  \/ CellText(table, r, "Variant") = EmptyStr

GeneCells == {JStr(chd8), JStr(<<" ">>), NaN}

VariantCells == {JStr(TheVariant), NaN}

Tables ==
  { [cols |-> c, rows |-> rs] :
      c \in {{"Gene", "Variant"}, {"Variant"}},
      rs \in UNION { [1..n -> [Gene : GeneCells, Variant : VariantCells]] :
                     n \in 0..MaxRows } }

\* lines 126-133: take the next row; skip it, or call the resolver with it
Excel_next_row ==
  /\ mode = "excel" /\ pc = "driver"
  /\ row < Len(df.rows)
  /\ row' = row + 1
  /\ IF RowSkipped(df, row')
     THEN UNCHANGED <<pc, gene_name, variant, id_list, idx, var_id, var_data,
                      ret, searched, esummary_calls, examined, calls>>
     ELSE LET gene == CellText(df, row', "Gene")
              v == CellText(df, row', "Variant")
          IN  /\ EnterCall(gene, v)
              /\ calls' = Append(calls, <<gene, v>>)
  /\ UNCHANGED <<tool, mode, idCap, df, results, written>>

\* lines 134-135: results.append(result); sleep(1)
Excel_append ==
  /\ mode = "excel" /\ pc = "returned"
  /\ results' = Append(results, ret.dict)
  /\ pc' = "driver"
  /\ UNCHANGED <<tool, mode, idCap, searched, df, row, calls, written, gene_name,
                 variant, id_list, idx, var_id, var_data, ret,
                 esummary_calls, examined>>

\* lines 137-139: after the last row, write the output table
Excel_save ==
  /\ mode = "excel" /\ pc = "driver"
  /\ row = Len(df.rows)
  /\ written' = [tag |-> "rows", rows |-> results]
  /\ pc' = "done"
  /\ UNCHANGED <<tool, mode, idCap, searched, df, row, results, calls, gene_name,
                 variant, id_list, idx, var_id, var_data, ret,
                 esummary_calls, examined>>

InitBatch ==
  /\ tool = "batch"
  /\ mode = "excel"
  /\ pc = "driver"
  /\ gene_name = EmptyStr
  /\ variant = EmptyStr
  /\ id_list = <<>>
  /\ idx = 0
  /\ var_id = Unbound
  /\ var_data = Unbound
  /\ ret = NoRet
  /\ searched = NoRet
  /\ esummary_calls = <<>>
  /\ examined = <<>>
  /\ df \in Tables
  /\ row = 0
  /\ results = <<>>
  /\ calls = <<>>
  /\ written = NotWritten
  /\ idCap = BatchMaxIds

NextBatch ==
  \/ Excel_next_row
  \/ Batch_esearch
  \/ Batch_esummary_loop
  \/ Excel_append
  \/ Excel_save

SpecBatch == InitBatch /\ [][NextBatch]_vars

(* ============================ properties ================================ *)
(* Vocabulary of the properties: the answers of the service and the value  *)
(* the call ends with, stated without the operators of the code above.     *)

Range(f) == {f[k] : k \in DOMAIN f}

\* the symbol strings a detail record lists under 'genes'
ListedSymbols(data) ==
  IF "genes" \notin DOMAIN data THEN {}
  ELSE {e.v : e \in {x \in Range(data.genes) : x.t = "str"}}
       \cup {e.v.symbol : e \in {x \in Range(data.genes) :
                                    x.t = "dict" /\ "symbol" \in DOMAIN x.v}}
       \cup {EmptyStr : e \in {x \in Range(data.genes) :
                                    x.t = "dict" /\ "symbol" \notin DOMAIN x.v}}

SameIgnoringCase(a, b) == Lower(a) = Lower(b)

ListsGene(name, data) ==
  \E g \in ListedSymbols(data) : SameIgnoringCase(g, name)

TitleHasDelOrDup(data) ==
  /\ "title" \in DOMAIN data
  /\ \E k \in 1..Len(data.title) :
       /\ k + 2 <= Len(data.title)
       /\ Lower(SubSeq(data.title, k, k + 2))
            \in {<<"d", "e", "l">>, <<"d", "u", "p">>}

\* the call has ended (by return or by an exception)
Ended == pc \in {"returned", "raised", "done"} /\ ret # NoRet

Returned == Ended /\ ret.tag # "raise"

IsRecord(r) == r.tag = "dict" /\ "Variation ID" \in DOMAIN r.dict

\* the failure message of a returned value, as (template, arguments)
IsFailure(r) == r.tag = "str" \/ (r.tag = "dict" /\ "Error" \in DOMAIN r.dict)

FailureOf(r) ==
  IF r.tag = "str" THEN [fmt |-> r.fmt, args |-> r.args] ELSE r.dict["Error"]

IsSearchError(r) ==
  /\ IsFailure(r)
  /\ FailureOf(r).fmt \in {"Error: Unable to search ClinVar. {str(e)}",
                           "Unable to search ClinVar: {str(e)}"}

IsNoneFound(r) ==
  /\ IsFailure(r)
  /\ FailureOf(r).fmt = "No variants found for gene: {gene_name}"

IsGeneMismatch(r) ==
  /\ IsFailure(r)
  /\ FailureOf(r).fmt \in
       {"Variant found but not associated with gene {gene_name}. Found genes: {', '.join(gene_symbols)}",
        "No matching ClinVar record for gene"}

SearchAnswered == "kind" \in DOMAIN searched

\* the search failed: transport error, bad status, undecodable body, or a
\* body without 'esearchresult'
SearchFailed ==
  /\ SearchAnswered
  /\ \/ searched.kind = "exc"
     \/ searched.kind = "json" /\ "esearchresult" \notin DOMAIN searched.body

\* the search succeeded with zero identifiers
SearchFoundNothing ==
  /\ SearchAnswered
  /\ searched.kind = "json"
  /\ "esearchresult" \in DOMAIN searched.body
  /\ Get(searched.body.esearchresult, "idlist", <<>>) = <<>>

\* C1 (as claimed): in both tools the call never ends by raising an
\* exception, whatever the search and the detail requests answer.
C1_no_exception_escapes == ret.tag # "raise"

\* C1 failing run: the batch tool raised KeyError at line 64 on a search body
\* without 'esearchresult'.
C1_witness ==
  /\ tool = "batch" /\ pc = "raised"
  /\ searched = Json(EmptyDict)
  /\ ret = Raised("KeyError", 64)

\* C3: every record returned carries gene symbols that contain the requested
\* gene ignoring case, and comes from an examined candidate that lists the
\* requested gene; when no examined candidate lists it, no record is returned.
C3_record_only_for_requested_gene ==
  /\ IsRecord(ret) =>
       /\ Contains(Lower(gene_name), Lower(ret.dict["Gene Symbol"]))
       /\ \E k \in 1..Len(examined) :
            /\ examined[k].kind = "record"
            /\ ListsGene(gene_name, examined[k].data)
  /\ (\A k \in 1..Len(examined) :
        examined[k].kind = "record" => ~ListsGene(gene_name, examined[k].data))
       => ~IsRecord(ret)

\* C3 witness: the single tool returned a record for chd8 after two
\* candidates, the listed symbol differing from the request in case.
C3_witness ==
  /\ tool = "single" /\ IsRecord(ret) /\ gene_name = chd8
  /\ Len(examined) = 2
  /\ ret.dict["Gene Symbol"] = Chd8

\* C4: when the search succeeds with zero identifiers the call returns the
\* 'no variants found' failure and no esummary request is issued.
C4_empty_search_no_detail_fetch ==
  SearchFoundNothing =>
    /\ Returned
    /\ IsNoneFound(ret)
    /\ FailureOf(ret).args = <<gene_name>>
    /\ esummary_calls = <<>>

\* C4 witness: the batch tool got an 'esearchresult' without identifiers.
C4_witness ==
  /\ tool = "batch" /\ SearchFoundNothing /\ IsNoneFound(ret)
  /\ searched.body.esearchresult = EmptyDict

\* C5 (as claimed): when the search fails (transport error, bad status, or
\* malformed body) the call returns the search-error failure with the cause
\* message and issues no esummary request.
C5_search_failure_is_returned ==
  SearchFailed =>
    /\ Returned
    /\ IsSearchError(ret)
    /\ searched.kind = "exc" => FailureOf(ret).args = <<Message(searched.exc)>>
    /\ esummary_calls = <<>>

\* C5 failing run: the single tool raised on a malformed search body, before
\* any esummary request.
C5_witness ==
  /\ tool = "single" /\ SearchFailed /\ searched.kind = "json"
  /\ ret.tag = "raise" /\ esummary_calls = <<>>

\* the candidate's detail request succeeded with a non-empty record
HasPayload(e) == e.kind = "record" /\ e.data # EmptyDict

\* the four ways the batch tool passes over a candidate: the request
\* failed, the record is missing or empty, the requested gene is not
\* listed, the title contains del or dup
SkipCase(e) ==
  \/ e.kind \in {"exc", "noentry"}
  \/ e.kind = "record" /\ e.data = EmptyDict
  \/ HasPayload(e) /\ ~ListsGene(gene_name, e.data)
  \/ HasPayload(e) /\ TitleHasDelOrDup(e.data)

Survives(e) ==
  HasPayload(e) /\ ListsGene(gene_name, e.data) /\ ~TitleHasDelOrDup(e.data)

\* the title filter counts only where it is applied (the batch tool)
Eligible(e) ==
  /\ HasPayload(e)
  /\ ListsGene(gene_name, e.data)
  /\ tool = "batch" => ~TitleHasDelOrDup(e.data)

\* C2 (as claimed), on the runs that return and for a non-empty requested
\* gene: when some examined candidate has a non-empty record that lists the
\* requested gene (and passes the title filter in the batch tool), the call
\* returns a record with a non-empty 'Gene Symbol', wherever that candidate
\* sits in the id list.
C2_eligible_candidate_gives_record ==
  ( /\ Returned
    /\ gene_name # EmptyStr
    /\ \E k \in 1..Len(examined) : Eligible(examined[k]) )
  => /\ IsRecord(ret)
     /\ ret.dict["Gene Symbol"] # EmptyStr

\* C2 failing run: the single tool examined a record listing Chd8 and then
\* one listing ASXL1, and returned the mismatch failure for chd8.
C2_witness ==
  /\ tool = "single" /\ gene_name = chd8 /\ Returned
  /\ Len(examined) = 2
  /\ Eligible(examined[1])
  /\ HasPayload(examined[2]) /\ ASXL1 \in ListedSymbols(examined[2].data)
  /\ IsGeneMismatch(ret)

\* the gene symbols a failure reports (empty when it reports none)
ReportOf(r) ==
  IF Len(FailureOf(r).args) = 2 THEN FailureOf(r).args[2] ELSE EmptyStr

\* every candidate was examined and the call returned something else than a
\* record
LoopEndedWithoutRecord ==
  /\ Returned
  /\ id_list # <<>>
  /\ Len(examined) = Len(id_list)
  /\ ~IsRecord(ret)

IsSymbolEntry(e) == e.t \in {"dict", "str"}

\* the symbols of a detail record in listing order
SymbolSeq(data) ==
  LET es == SelectSeq(Get(data, "genes", <<>>), IsSymbolEntry)
  IN  [k \in 1..Len(es) |->
         IF es[k].t = "str" THEN es[k].v ELSE Get(es[k].v, "symbol", EmptyStr)]

\* positions of the candidates whose request was answered with a 'result'
Answered == {k \in 1..Len(examined) : examined[k].kind \in {"record", "noentry"}}

LastAnswered == CHOOSE k \in Answered : \A j \in Answered : j <= k

DataOf(e) == IF e.kind = "record" THEN e.data ELSE EmptyDict

C8_batch_first_survivor ==
  tool = "batch" =>
    /\ Len(examined) = Len(esummary_calls)
    /\ Len(esummary_calls) <= Len(id_list)
    /\ \A k \in 1..Len(esummary_calls) :
         esummary_calls[k] = id_list[k] /\ examined[k].id = id_list[k]
    /\ \A k \in 1..Len(examined) :
         SkipCase(examined[k]) =>
           \/ k < Len(examined)
           \/ k < Len(id_list) /\ pc = "loop" /\ idx = k + 1
           \/ k = Len(id_list) /\ Returned /\ IsGeneMismatch(ret)
    /\ \A k \in 1..Len(examined) :
         Survives(examined[k]) =>
           /\ k = Len(examined)
           /\ Returned /\ IsRecord(ret)
           /\ ret.dict["Variation ID"] = id_list[k]
           /\ ret.dict["Accession"] = Get(examined[k].data, "accession", NA)
           /\ ret.dict["Title"] = Get(examined[k].data, "title", NA)
    /\ IsRecord(ret) =>
         /\ Len(examined) >= 1
         /\ Survives(examined[Len(examined)])
         /\ \A j \in 1..(Len(examined) - 1) : SkipCase(examined[j])

\* C8 witness: the first candidate lists the gene but has a del title, the
\* second one is returned.
C8_witness ==
  /\ tool = "batch" /\ IsRecord(ret)
  /\ Len(examined) = 2
  /\ HasPayload(examined[1])
  /\ ListsGene(gene_name, examined[1].data)
  /\ TitleHasDelOrDup(examined[1].data)
  /\ ret.dict["Variation ID"] = IdOf(2)

\* C9 (as claimed): the 'Variation ID' of a returned record is the
\* identifier of the candidate whose detail record supplied its other fields.
C9_variation_id_of_source_candidate ==
  IsRecord(ret) =>
    \E k \in 1..Len(examined) :
       /\ examined[k].id = ret.dict["Variation ID"]
       /\ examined[k].kind = "record"
       /\ ret.dict["Accession"] = Get(examined[k].data, "accession", NA)
       /\ ret.dict["Title"] = Get(examined[k].data, "title", NA)

\* C9 failing run: the single tool returned identifier 2 with the accession
\* of candidate 1, the request for candidate 2 having failed.
C9_witness ==
  /\ tool = "single" /\ gene_name = chd8 /\ IsRecord(ret)
  /\ Len(examined) = 2 /\ examined[2].kind = "exc"
  /\ ret.dict["Variation ID"] = IdOf(2)
  /\ ret.dict["Accession"] = AccessionOf(IdOf(1))

\* the record the code goes on to build from: in the single tool what the
\* loop left in var_data, in the batch tool the surviving candidate
ChosenCandidate ==
  /\ Ended
  /\ id_list # <<>>
  /\ "unbound" \notin DOMAIN var_data
  /\ var_data # EmptyDict
  /\ ListsGene(gene_name, var_data)
  /\ tool = "single" => idx > Len(id_list)
  /\ tool = "batch" => Survives(examined[Len(examined)])

ExpectedSpdi(data) ==
  IF /\ "variation_set" \in DOMAIN data
     /\ data.variation_set # <<>>
     /\ data.variation_set[1].t = "dict"
  THEN data.variation_set[1].v.canonical_spdi
  ELSE NA

\* C10 (as claimed): for a gene-matching candidate the call returns a record
\* whose 'Canonical spdi' is 'N/A' when variation_set is missing, empty or
\* starts with an unstructured element, and the first element's
\* canonical_spdi otherwise.
C10_canonical_spdi_defaults ==
  ChosenCandidate =>
    /\ IsRecord(ret)
    /\ ret.dict["Canonical spdi"] = ExpectedSpdi(var_data)

\* C10 failing run: the single tool raised at line 92 for a record that
\* lists chd8 and has no variation_set.
C10_witness ==
  /\ tool = "single" /\ gene_name = chd8 /\ ChosenCandidate
  /\ "variation_set" \notin DOMAIN var_data
  /\ ret = Raised("UnboundLocalError", 92)

\* a cell the table leaves blank: no such column, an empty cell, or spaces
BlankCell(table, r, col) ==
  \/ col \notin table.cols
  \/ table.rows[r][col].t = "nan"
  \/ /\ table.rows[r][col].t = "str"
     /\ \A k \in 1..Len(table.rows[r][col].v) : table.rows[r][col].v[k] = " "

BlankRow(r) == BlankCell(df, r, "Gene") \/ BlankCell(df, r, "Variant")

NonBlankRows == {r \in 1..Len(df.rows) : ~BlankRow(r)}

\* C6 (as claimed): the output table written has exactly one row per
\* non-blank input row, and the resolver was called once per such row and
\* for no blank row.
C6_one_output_row_per_nonblank_row ==
  written # NotWritten =>
    /\ Len(written.rows) = Cardinality(NonBlankRows)
    /\ Len(calls) = Cardinality(NonBlankRows)

\* C6 failing run: one blank row and two valid rows gave three calls and
\* three output rows.
C6_witness ==
  /\ written # NotWritten
  /\ df.cols = {"Gene", "Variant"}
  /\ Len(df.rows) = 3
  /\ df.rows[1] = [Gene |-> NaN, Variant |-> NaN]
  /\ Cardinality(NonBlankRows) = 2
  /\ Len(calls) = 3
  /\ Len(written.rows) = 3

=============================================================================
